---- MODULE Spec2Model ----
(***************************************************************************)
(* A model of goopy, a thin wrapper over the Google Sheets, Slides and     *)
(* Drive client libraries.                                                 *)
(*                                                                         *)
(*   - BaseService._extract_id / _get_file_id  (BaseGoogleServiceAPI.py)   *)
(*   - SheetsService.__get_column_name(s)      (SheetServiceAPI.py)        *)
(*   - the public operations of SheetsService, SlidesService, DriveService *)
(*                                                                         *)
(* Text is modelled as a sequence of one-character strings, so that the    *)
(* regular-expression searches and the column-name arithmetic work on the  *)
(* characters, as the code does.                                           *)
(***************************************************************************)
EXTENDS Integers, Sequences, FiniteSets, TLC

VARIABLES
    op,           \* the operation applied, "" before it is
    link,         \* the argument of _extract_id
    idx,          \* the argument of __get_column_name
    columns_num,  \* the argument of __get_column_names
    args,         \* the arguments of the public operation applied (a record)
    remote,       \* what the remote service does during the operation (a record)
    rpcs,         \* the remote calls the operation issued, in order
    saved,        \* the local files the operation wrote, in order
    ret           \* the outcome of the operation applied: none, return or raise

vars == <<op, link, idx, columns_num, args, remote, rpcs, saved, ret>>

\* What the resolver and the codec leave alone.
pure_vars == <<link, idx, columns_num, args, remote, rpcs, saved>>

----------------------------------------------------------------------------
(* Bounds of the model.                                                    *)

\* A link is the concatenation of at most MaxParts fragments.
MaxParts == 4

\* Column indices and counts are drawn from -MaxNeg..MaxIdx and -MaxNeg..MaxCount.
MaxIdx == 750

MaxCount == 30

MaxNeg == 3

\* A spreadsheet has at most MaxSheets sheets; page_id is drawn from 0..MaxSheets.
MaxSheets == 1

\* A file is downloaded in at most MaxChunks chunks.
MaxChunks == 2

\* A folder lists at most MaxItems items.
MaxItems == 2

\* The call of an invocation that fails is one of the first MaxFail, or none.
MaxFail == 3

\* A file id handed to generate_access_link has at most MaxIdLen characters.
MaxIdLen == 3

\* A sheet's values have at most MaxRows rows of at most MaxCols cells.
MaxRows == 2

MaxCols == 3

----------------------------------------------------------------------------
(* Outcomes of a call.                                                     *)

NoOutcome == [kind |-> "none"]

Return(v) == [kind |-> "return", value |-> v]

\* raise type(msg): the exception carries exactly the arguments it was built with.
Raise(type, msg) == [kind |-> "raise", type |-> type, args |-> <<msg>>]

\* Python's None, for an argument that is not given.
None == <<"None">>

----------------------------------------------------------------------------
(* Text.                                                                   *)

Lower == {"a","b","c","d","e","f","g","h","i","j","k","l","m","n","o","p","q","r","s","t","u","v","w","x","y","z"}

Upper == {"A","B","C","D","E","F","G","H","I","J","K","L","M","N","O","P","Q","R","S","T","U","V","W","X","Y","Z"}

Digit == {"0","1","2","3","4","5","6","7","8","9"}

\* The character class [a-zA-Z0-9-_] (the same set as [a-zA-Z0-9_-]).
IdChars == Lower \cup Upper \cup Digit \cup {"-", "_"}

\* The literal text k occurs in s at position p.
HasAt(s, p, k) ==
    /\ p >= 1
    /\ p + Len(k) - 1 <= Len(s)
    /\ \A i \in 1..Len(k) : s[p + i - 1] = k[i]

\* The length of the longest run of class characters of s that starts at q:
\* what the greedy [a-zA-Z0-9-_]+ consumes (0: it does not match at q).
RECURSIVE RunLen(_, _)
RunLen(s, q) ==
    IF q >= 1 /\ q <= Len(s) /\ s[q] \in IdChars
    THEN 1 + RunLen(s, q + 1)
    ELSE 0

----------------------------------------------------------------------------
(* The three patterns of _extract_id.  Each is  <literal>(<class>+)  with  *)
(* an alternation inside the literal; a pattern is given as the sequence   *)
(* of its alternatives, each the whole literal text before group 2.        *)

\* r'/(spreadsheets|presentation)/d/([a-zA-Z0-9-_]+)'
SheetPattern ==
    << <<"/","s","p","r","e","a","d","s","h","e","e","t","s","/","d","/">>,
       <<"/","p","r","e","s","e","n","t","a","t","i","o","n","/","d","/">> >>

\* DrivePattern as it would be with the shared-drive layout accepted too.
DrivePattern_SharedDrive ==
    << <<"/","d","r","i","v","e","/","f","o","l","d","e","r","s","/">>,
       <<"/","d","r","i","v","e","/","d","/">>,
       <<"/","d","r","i","v","e","/","u","/","0","/","f","o","l","d","e","r","s","/">> >>

\* r'/drive/(folders|d)/([a-zA-Z0-9-_]+)'
DrivePattern ==
    << <<"/","d","r","i","v","e","/","f","o","l","d","e","r","s","/">>,
       <<"/","d","r","i","v","e","/","d","/">> >>

\* r'(id)=([a-zA-Z0-9_-]+)'
IdPattern == << <<"i","d","=">> >>

\* The alternatives of pattern pat that match s at position p.
AltsAt(pat, s, p) ==
    {a \in DOMAIN pat : HasAt(s, p, pat[a]) /\ RunLen(s, p + Len(pat[a])) > 0}

\* The positions of s at which pattern pat matches.
MatchStarts(pat, s) == {p \in 1..Len(s) : AltsAt(pat, s, p) # {}}

Min(S) == CHOOSE x \in S : \A y \in S : x <= y

NoMatch == [matched |-> FALSE]

\* MatchObject with a lazy group 2 ([a-zA-Z0-9-_]+?): one character is captured.
MatchObject_Lazy(s, p, q) ==
    [matched |-> TRUE, start |-> p, group2 |-> SubSeq(s, q, q)]

\* The match of a pattern whose literal starts at p and whose group 2 starts
\* at q: group 2 is the greedy run of class characters from q.
MatchObject(s, p, q) ==
    [matched |-> TRUE, start |-> p, group2 |-> SubSeq(s, q, q + RunLen(s, q) - 1)]

\* The match of pat at position p of s, by the first alternative that matches
\* there.
MatchAt(pat, s, p) == MatchObject(s, p, p + Len(pat[Min(AltsAt(pat, s, p))]))

\* re.search(pat, s): the match at the leftmost position where the pattern
\* matches, or no match.
re_search(pat, s) ==
    IF MatchStarts(pat, s) = {}
    THEN NoMatch
    ELSE MatchAt(pat, s, Min(MatchStarts(pat, s)))

\* The message of the ValueError of _extract_id.
InvalidGoogleLink ==
    <<"I","n","v","a","l","i","d"," ","G","o","o","g","l","e"," ","l","i","n","k">>

\* The message of the TypeError of re.search(pattern, None).
ExpectedString ==
    <<"e","x","p","e","c","t","e","d"," ","s","t","r","i","n","g"," ","o","r"," ","b","y","t","e","s","-","l","i","k","e"," ","o","b","j","e","c","t">>

\* match = match if match else re.search(pat, l)
OrSearch(match, pat, l) == IF match.matched THEN match ELSE re_search(pat, l)

\* The end of _extract_id: group 2 of the match is returned, or ValueError is
\* raised.
GroupOrRaise(match) ==
    IF match.matched
    THEN Return(match.group2)
    ELSE Raise("ValueError", InvalidGoogleLink)

\* The end of _extract_id, returning an empty identifier where it should raise.
GroupOrEmpty(match) ==
    IF match.matched
    THEN Return(match.group2)
    ELSE Return(<<>>)

\* _extract_id with the generic id= pattern tried first.
_extract_id_IdFirst(l) ==
    IF l = None
    THEN Raise("TypeError", ExpectedString)
    ELSE GroupOrRaise(OrSearch(OrSearch(re_search(IdPattern, l), SheetPattern, l),
                               DrivePattern, l))

\* _extract_id returning an empty identifier where it should raise.
_extract_id_EmptyOnNoMatch(l) ==
    IF l = None
    THEN Raise("TypeError", ExpectedString)
    ELSE GroupOrEmpty(OrSearch(OrSearch(re_search(SheetPattern, l), DrivePattern, l),
                               IdPattern, l))

\* BaseService._extract_id.  re.search raises TypeError for a link that is None.
_extract_id(l) ==
    IF l = None
    THEN Raise("TypeError", ExpectedString)
    ELSE GroupOrRaise(OrSearch(OrSearch(re_search(SheetPattern, l), DrivePattern, l),
                               IdPattern, l))

----------------------------------------------------------------------------
(* The links the resolver is applied to: concatenations of fragments, and  *)
(* the links that the documentation gives as examples.                     *)

Fragments ==
    << <<"/","s","p","r","e","a","d","s","h","e","e","t","s","/","d","/">>,
       <<"/","p","r","e","s","e","n","t","a","t","i","o","n","/","d","/">>,
       <<"/","d","r","i","v","e","/","f","o","l","d","e","r","s","/">>,
       <<"/","d","r","i","v","e","/","d","/">>,
       <<"/","d","r","i","v","e","/","u","/","0","/","f","o","l","d","e","r","s","/">>,
       <<"i","d","=">>,
       <<"1","A","2","b","3","C","4","d">>,
       <<"X","y","Z","_","9","-","8">>,
       <<"/","e","d","i","t">> >>

RECURSIVE LinksUpTo(_)
LinksUpTo(n) ==
    IF n = 0
    THEN {<<>>}
    ELSE LinksUpTo(n - 1) \cup
         {l \o Fragments[f] : l \in LinksUpTo(n - 1), f \in DOMAIN Fragments}

\* "https://docs.google.com/spreadsheets/d/1A2b3C4d/edit"
SheetLink ==
    <<"h","t","t","p","s",":","/","/","d","o","c","s",".","g","o","o","g","l","e",".","c","o","m","/","s","p","r","e","a","d","s","h","e","e","t","s","/","d","/","1","A","2","b","3","C","4","d","/","e","d","i","t">>

\* "https://drive.google.com/drive/folders/XyZ_9-8"
FolderLink ==
    <<"h","t","t","p","s",":","/","/","d","r","i","v","e",".","g","o","o","g","l","e",".","c","o","m","/","d","r","i","v","e","/","f","o","l","d","e","r","s","/","X","y","Z","_","9","-","8">>

\* "https://example.com/open?id=abc-123_XYZ"
OpenLink ==
    <<"h","t","t","p","s",":","/","/","e","x","a","m","p","l","e",".","c","o","m","/","o","p","e","n","?","i","d","=","a","b","c","-","1","2","3","_","X","Y","Z">>

\* "https://example.com/no-match-here"
NoMatchLink ==
    <<"h","t","t","p","s",":","/","/","e","x","a","m","p","l","e",".","c","o","m","/","n","o","-","m","a","t","c","h","-","h","e","r","e">>

\* "https://drive.google.com/drive/u/0/folders/XyZ_9-8"
SharedDriveLink ==
    <<"h","t","t","p","s",":","/","/","d","r","i","v","e",".","g","o","o","g","l","e",".","c","o","m","/","d","r","i","v","e","/","u","/","0","/","f","o","l","d","e","r","s","/","X","y","Z","_","9","-","8">>

Links ==
    LinksUpTo(MaxParts) \cup {SheetLink, FolderLink, OpenLink, NoMatchLink, SharedDriveLink}

----------------------------------------------------------------------------
(* The resolver: a link is drawn, _extract_id is applied to it.            *)

InitResolver ==
    /\ op = ""
    /\ link \in Links
    /\ idx = 0
    /\ columns_num = 0
    /\ args = <<>>
    /\ remote = <<>>
    /\ rpcs = <<>>
    /\ saved = <<>>
    /\ ret = NoOutcome

ExtractId ==
    /\ op = ""
    /\ op' = "_extract_id"
    /\ ret' = _extract_id(link)
    /\ UNCHANGED pure_vars

NextResolver == ExtractId

SpecResolver == InitResolver /\ [][NextResolver]_vars

----------------------------------------------------------------------------
(* Properties of the resolver.  They are stated on the characters of the   *)
(* link, with HasAt and IdChars only.                                      *)

\* The keyword k occurs in l at p and an identifier character follows it.
ShapeAt(k, l, p) ==
    /\ HasAt(l, p, k)
    /\ p + Len(k) <= Len(l)
    /\ l[p + Len(k)] \in IdChars

\* One of the keywords of pat occurs in l followed by an identifier character.
HasShape(pat, l) == \E p \in 1..Len(l), a \in DOMAIN pat : ShapeAt(pat[a], l, p)

\* The keyword k occurs somewhere in l.
Occurs(k, l) == \E p \in 1..Len(l) : HasAt(l, p, k)

\* v is the longest run of identifier characters of l that starts at q.
IsRunAt(v, l, q) ==
    /\ Len(v) >= 1
    /\ q + Len(v) - 1 <= Len(l)
    /\ \A i \in 1..Len(v) : v[i] \in IdChars /\ v[i] = l[q + i - 1]
    /\ (q + Len(v) <= Len(l) => l[q + Len(v)] \notin IdChars)

\* v is the identifier after the leftmost place of l where a keyword of pat
\* is followed by an identifier character.
IsCaptureOf(v, pat, l) ==
    \E p \in 1..Len(l), a \in DOMAIN pat :
        /\ ShapeAt(pat[a], l, p)
        /\ \A p2 \in 1..(p - 1), a2 \in DOMAIN pat : ~ShapeAt(pat[a2], l, p2)
        /\ IsRunAt(v, l, p + Len(pat[a]))

\* v is the identifier after the leftmost occurrence in l of a keyword of pat,
\* whatever follows that occurrence.
IsAfterLeftmostKeyword(v, pat, l) ==
    \E p \in 1..Len(l), a \in DOMAIN pat :
        /\ HasAt(l, p, pat[a])
        /\ \A p2 \in 1..(p - 1), a2 \in DOMAIN pat : ~HasAt(l, p2, pat[a2])
        /\ IsRunAt(v, l, p + Len(pat[a]))

\* The pattern that wins for l: the first, in the order sheet, drive, id,
\* of which l has the shape.
Winner(l) ==
    IF HasShape(SheetPattern, l) THEN SheetPattern
    ELSE IF HasShape(DrivePattern, l) THEN DrivePattern
    ELSE IdPattern

NoShape(l) ==
    /\ ~HasShape(SheetPattern, l)
    /\ ~HasShape(DrivePattern, l)
    /\ ~HasShape(IdPattern, l)

Resolved == op = "_extract_id"

\* C1: _extract_id returns the capture of the first pattern, in the order
\* sheet/presentation path, drive path, id= parameter, that matches anywhere in
\* the link, wherever a later pattern would match; in particular a link with an
\* id=<id2> parameter and a spreadsheet path gives the identifier of the
\* (leftmost) spreadsheet path, also when id= comes first in the link.
C1_MatcherOrder ==
    Resolved =>
        /\ HasShape(SheetPattern, link) =>
               ret.kind = "return" /\ IsCaptureOf(ret.value, SheetPattern, link)
        /\ (~HasShape(SheetPattern, link) /\ HasShape(DrivePattern, link)) =>
               ret.kind = "return" /\ IsCaptureOf(ret.value, DrivePattern, link)
        /\ (~HasShape(SheetPattern, link) /\ ~HasShape(DrivePattern, link)
                /\ HasShape(IdPattern, link)) =>
               ret.kind = "return" /\ IsCaptureOf(ret.value, IdPattern, link)
        /\ \A p \in 1..Len(link), q \in 1..Len(link) :
               ( /\ ShapeAt(IdPattern[1], link, p)
                 /\ ShapeAt(SheetPattern[1], link, q)
                 /\ \A q2 \in 1..(q - 1), a \in DOMAIN SheetPattern :
                        ~ShapeAt(SheetPattern[a], link, q2) )
               => ( /\ ret.kind = "return"
                    /\ IsRunAt(ret.value, link, q + Len(SheetPattern[1])) )

\* C1 witness: a link whose id= parameter comes before its spreadsheet path and
\* names another identifier; the identifier of the path was returned.
C1_Witness ==
    /\ Resolved
    /\ ret.kind = "return"
    /\ \E p \in 1..Len(link), q \in 1..Len(link) :
           /\ p < q
           /\ ShapeAt(IdPattern[1], link, p)
           /\ ShapeAt(SheetPattern[1], link, q)
           /\ IsRunAt(ret.value, link, q + Len(SheetPattern[1]))
           /\ ~IsRunAt(ret.value, link, p + Len(IdPattern[1]))

\* C2 as stated: for a link of none of the three shapes, _extract_id raises an
\* error that carries the link it was given.
C2_ErrorCarriesLink ==
    (Resolved /\ NoShape(link)) =>
        /\ ret.kind = "raise"
        /\ \E i \in DOMAIN ret.args : ret.args[i] = link

\* C2 amended: for a link of none of the three shapes (the empty string and
\* "https://example.com/no-match-here" among them), _extract_id returns no
\* identifier and raises ValueError("Invalid Google link"): the only argument of
\* the error is that fixed message, not the link.
C2_NoMatchRaises ==
    /\ (Resolved /\ NoShape(link)) =>
           /\ ret.kind = "raise"
           /\ ret.type = "ValueError"
           /\ ret.args = <<InvalidGoogleLink>>
    /\ (Resolved /\ link \in {<<>>, NoMatchLink}) => ret.kind = "raise"

C2_Witness ==
    /\ Resolved
    /\ link = NoMatchLink
    /\ ret.kind = "raise"

\* C3 as stated: a returned identifier is non-empty, made of identifier
\* characters, and is the longest run of them after the leftmost occurrence of
\* the winning pattern's keyword.
C3_AfterLeftmostKeyword ==
    (Resolved /\ ret.kind = "return") =>
        IsAfterLeftmostKeyword(ret.value, Winner(link), link)

\* C3 amended: a returned identifier is non-empty, made of identifier
\* characters, and is, unchanged, the longest run of them after the leftmost
\* occurrence of the winning pattern's keyword that is followed by an identifier
\* character.
C3_ExactCapture ==
    (Resolved /\ ret.kind = "return") =>
        /\ ret.value # <<>>
        /\ \A i \in DOMAIN ret.value : ret.value[i] \in IdChars
        /\ IsCaptureOf(ret.value, Winner(link), link)
        /\ (link = SheetLink => ret.value = <<"1","A","2","b","3","C","4","d">>)
        /\ (link = FolderLink => ret.value = <<"X","y","Z","_","9","-","8">>)
        /\ (link = OpenLink =>
                ret.value = <<"a","b","c","-","1","2","3","_","X","Y","Z">>)

\* C3 witness: the keyword occurs first where no identifier follows it, and
\* the identifier after a later occurrence was returned.
C3_Witness ==
    /\ Resolved
    /\ ret.kind = "return"
    /\ Len(ret.value) > 1
    /\ IsCaptureOf(ret.value, Winner(link), link)
    /\ ~IsAfterLeftmostKeyword(ret.value, Winner(link), link)

\* "/drive/u/0/folders/": the drive path with segments between drive and folders.
SharedFolders ==
    <<"/","d","r","i","v","e","/","u","/","0","/","f","o","l","d","e","r","s","/">>

HasSharedDriveShape(l) == \E p \in 1..Len(l) : ShapeAt(SharedFolders, l, p)

\* "/drive/folders/" and "/drive/d/": the direct drive paths.
DirectDrivePaths ==
    << <<"/","d","r","i","v","e","/","f","o","l","d","e","r","s","/">>,
       <<"/","d","r","i","v","e","/","d","/">> >>

\* C9 as stated: a link with /drive/u/0/folders/<id>, without /spreadsheets/d/,
\* /presentation/d/ and id=<identifier character>, makes _extract_id fail.
C9_SharedDriveAlwaysFails ==
    ( /\ Resolved
      /\ HasSharedDriveShape(link)
      /\ ~Occurs(SheetPattern[1], link)
      /\ ~Occurs(SheetPattern[2], link)
      /\ ~HasShape(IdPattern, link) )
    => ret.kind = "raise"

\* C9 amended: a link with /drive/u/0/folders/<id>, without /spreadsheets/d/,
\* /presentation/d/, id=<identifier character> and also without a direct
\* /drive/folders/<id> or /drive/d/<id>, makes _extract_id fail: nothing is
\* returned.
C9_SharedDriveFails ==
    ( /\ Resolved
      /\ HasSharedDriveShape(link)
      /\ ~Occurs(SheetPattern[1], link)
      /\ ~Occurs(SheetPattern[2], link)
      /\ ~HasShape(IdPattern, link)
      /\ ~HasShape(DirectDrivePaths, link) )
    => ret.kind = "raise"

C9_Witness ==
    /\ Resolved
    /\ link = SharedDriveLink
    /\ HasSharedDriveShape(link)
    /\ ret.kind = "raise"

----------------------------------------------------------------------------
(* The column codec of SheetsService.                                      *)

Letters ==
    <<"A","B","C","D","E","F","G","H","I","J","K","L","M",
      "N","O","P","Q","R","S","T","U","V","W","X","Y","Z">>

\* ord('A')
OrdA == 65

\* chr(c), for the code points of A..Z.
Chr(c) == Letters[c - 64]

\* s[::-1]
Reverse(s) == [i \in 1..Len(s) |-> s[Len(s) + 1 - i]]

\* The while loop of __get_column_name: the letters, least significant first.
RECURSIVE ColumnNameLoop(_, _)
ColumnNameLoop(i, result) ==
    IF i > 0
    THEN ColumnNameLoop((i - 1) \div 26, Append(result, Chr(((i - 1) % 26) + OrdA)))
    ELSE result

\* __get_column_name without the final reversal.
__get_column_name_NoReverse(i) == Return(ColumnNameLoop(i, <<>>))

\* __get_column_name in ordinary base 26 (idx % 26, idx // 26).
RECURSIVE ZeroBasedLoop(_, _)
ZeroBasedLoop(i, result) ==
    IF i > 0
    THEN ZeroBasedLoop(i \div 26, Append(result, Chr((i % 26) + OrdA)))
    ELSE result

__get_column_name_ZeroBased(i) == Return(Reverse(ZeroBasedLoop(i, <<>>)))

\* __get_column_name with the loop entered for idx = 0 too (while idx >= 0).
RECURSIVE InclusiveLoop(_, _)
InclusiveLoop(i, result) ==
    IF i >= 0
    THEN InclusiveLoop((i - 1) \div 26, Append(result, Chr(((i - 1) % 26) + OrdA)))
    ELSE result

__get_column_name_Inclusive(i) == Return(Reverse(InclusiveLoop(i, <<>>)))

\* SheetsService.__get_column_name
__get_column_name(i) == Return(Reverse(ColumnNameLoop(i, <<>>)))

\* __get_column_names counting from 0 (range(columns_num)).
__get_column_names_FromZero(n) ==
    Return([i \in 1..n |-> __get_column_name(i - 1).value])

\* __get_column_names on the magnitude of the count.
__get_column_names_Abs(n) ==
    Return([i \in 1..(IF n < 0 THEN -n ELSE n) |-> __get_column_name(i).value])

\* SheetsService.__get_column_names: range(1, columns_num + 1) is empty for
\* columns_num <= 0.
__get_column_names(n) ==
    Return([i \in 1..n |-> __get_column_name(i).value])

\* An index or a count is drawn; either function can be applied to it.
InitCodec ==
    /\ op = ""
    /\ link = <<>>
    /\ \/ idx \in (-MaxNeg)..MaxIdx /\ columns_num = 0
       \/ idx = 0 /\ columns_num \in (-MaxNeg)..MaxCount
    /\ args = <<>>
    /\ remote = <<>>
    /\ rpcs = <<>>
    /\ saved = <<>>
    /\ ret = NoOutcome

GetColumnName ==
    /\ op = ""
    /\ op' = "__get_column_name"
    /\ ret' = __get_column_name(idx)
    /\ UNCHANGED pure_vars

GetColumnNames ==
    /\ op = ""
    /\ op' = "__get_column_names"
    /\ ret' = __get_column_names(columns_num)
    /\ UNCHANGED pure_vars

NextCodec == GetColumnName \/ GetColumnNames

SpecCodec == InitCodec /\ [][NextCodec]_vars

----------------------------------------------------------------------------
(* Properties of the column codec.                                         *)

\* The digit of a letter: A=1 ... Z=26.
LetterDigit(c) == CHOOSE d \in 1..26 : Letters[d] = c

\* s is a label: a non-empty word over A..Z.
IsLabel(s) ==
    /\ Len(s) >= 1
    /\ \A i \in 1..Len(s) : \E d \in 1..26 : Letters[d] = s[i]

\* The number a label denotes as a bijective base-26 numeral, most significant
\* letter first.
RECURSIVE LabelValue(_)
LabelValue(s) ==
    IF Len(s) = 0
    THEN 0
    ELSE 26 * LabelValue(SubSeq(s, 1, Len(s) - 1)) + LetterDigit(s[Len(s)])

Named == op = "__get_column_name"

NamedAll == op = "__get_column_names"

\* C4: for every index n >= 1 __get_column_name returns the bijective base-26
\* label of n over A..Z, most significant letter first; 1 -> A, 26 -> Z,
\* 27 -> AA, 52 -> AZ, 702 -> ZZ, 703 -> AAA.
C4_BijectiveBase26 ==
    (Named /\ idx >= 1) =>
        /\ ret.kind = "return"
        /\ IsLabel(ret.value)
        /\ LabelValue(ret.value) = idx
        /\ (idx = 1 => ret.value = <<"A">>)
        /\ (idx = 26 => ret.value = <<"Z">>)
        /\ (idx = 27 => ret.value = <<"A","A">>)
        /\ (idx = 52 => ret.value = <<"A","Z">>)
        /\ (idx = 702 => ret.value = <<"Z","Z">>)
        /\ (idx = 703 => ret.value = <<"A","A","A">>)

C4_Witness ==
    /\ Named
    /\ idx = 703
    /\ ret = Return(<<"A","A","A">>)

\* C5: decoding the label of n gives back n, for every n of 1..MaxIdx, and no
\* other index of that range has the same label.
C5_RoundTrip ==
    (Named /\ idx >= 1) =>
        /\ ret.kind = "return"
        /\ LabelValue(ret.value) = idx
        /\ \A m \in 1..MaxIdx : m # idx => __get_column_name(m) # ret

C5_Witness ==
    /\ Named
    /\ idx = 702
    /\ ret.kind = "return"
    /\ Len(ret.value) = 2
    /\ LabelValue(ret.value) = 702

\* C6 as stated: for an index <= 0 __get_column_name fails with an error and
\* returns no label, not even the empty string.
C6_NonPositiveRaises ==
    (Named /\ idx <= 0) => ret.kind = "raise"

\* C6 amended: for an index <= 0 __get_column_name raises nothing and returns
\* the empty string.
C6_NonPositiveEmpty ==
    (Named /\ idx <= 0) => ret = Return(<<>>)

C6_Witness ==
    /\ Named
    /\ idx = 0
    /\ ret = Return(<<>>)

\* C7: for every count >= 0 __get_column_names returns exactly count labels,
\* the i-th being the label of index i; for count = 0 the empty sequence.
C7_LabelsInOrder ==
    (NamedAll /\ columns_num >= 0) =>
        /\ ret.kind = "return"
        /\ Len(ret.value) = columns_num
        /\ \A i \in 1..columns_num :
               IsLabel(ret.value[i]) /\ LabelValue(ret.value[i]) = i
        /\ (columns_num = 0 => ret.value = <<>>)
        /\ (columns_num = 3 => ret.value = << <<"A">>, <<"B">>, <<"C">> >>)

C7_Witness ==
    /\ NamedAll
    /\ columns_num = 28
    /\ ret.kind = "return"
    /\ Len(ret.value) = 28
    /\ ret.value[28] = <<"A","B">>

\* C8 as stated: for a count < 0 __get_column_names fails with an error instead
\* of returning a sequence.
C8_NegativeCountRaises ==
    (NamedAll /\ columns_num < 0) => ret.kind = "raise"

\* C8 amended: for a count < 0 __get_column_names raises nothing and returns the
\* empty sequence.
C8_NegativeCountEmpty ==
    (NamedAll /\ columns_num < 0) => ret = Return(<<>>)

C8_Witness ==
    /\ NamedAll
    /\ columns_num = -1
    /\ ret = Return(<<>>)

----------------------------------------------------------------------------
(* The public operations.  An operation is applied to arguments drawn from *)
(* small sets; the remote service answers each call, and at most one call  *)
(* of an invocation, the fail-th one issued (0: none), raises HttpError.   *)
(* An operator gives the calls issued, in order, and the outcome.          *)

\* not x, for a text argument that may be None.
Falsy(x) == x = None \/ x = <<>>

\* An optional integer argument: Nothing for None, Some(i) for i.
Nothing == <<>>

Some(i) == <<i>>

\* One remote call: request.execute(), or one downloader.next_chunk().
Rpc(method, id, arg, ok) == [method |-> method, id |-> id, arg |-> arg, ok |-> ok]

Done(calls, outcome) == [rpcs |-> calls, ret |-> outcome]

\* The googleapiclient HttpError of a call that failed.
HttpError == <<"H","t","t","p","E","r","r","o","r">>

\* What a call that succeeded answers, where the content does not matter.
Response == <<"r","e","s","p","o","n","s","e">>

\* "Either file_link or file_id must be provided."
EitherFileMsg ==
    <<"E","i","t","h","e","r"," ","f","i","l","e","_","l","i","n","k"," ","o","r"," ","f","i","l","e","_","i","d"," ","m","u","s","t"," ","b","e"," ","p","r","o","v","i","d","e","d",".">>

\* BaseService._get_file_id
_get_file_id(file_link, file_id) ==
    IF Falsy(file_id)
    THEN IF Falsy(file_link)
         THEN Raise("ValueError", EitherFileMsg)
         ELSE _extract_id(file_link)
    ELSE Return(file_id)

\* Execute with one more attempt after a call that failed.
Execute_Retry(calls, method, id, arg, fail, value) ==
    LET ok == fail # Len(calls) + 1
    IN  IF ok
        THEN Done(Append(calls, Rpc(method, id, arg, TRUE)), Return(value))
        ELSE Done(calls \o <<Rpc(method, id, arg, FALSE), Rpc(method, id, arg, TRUE)>>,
                  Return(value))

\* One request.execute(): the call is appended to the calls issued so far; it
\* raises HttpError when it is the fail-th call, and answers value otherwise.
Execute(calls, method, id, arg, fail, value) ==
    LET ok == fail # Len(calls) + 1
    IN  Done(Append(calls, Rpc(method, id, arg, ok)),
             IF ok THEN Return(value) ELSE Raise("HttpError", HttpError))

\* The title of the i-th sheet of the spreadsheet: "Sheet1", "Sheet2", ...
SheetTitle(i) ==
    <<"S","h","e","e","t">> \o <<(<<"1","2","3","4","5","6","7","8","9">>)[i]>>

\* "list index out of range"
ListIndexMsg ==
    <<"l","i","s","t"," ","i","n","d","e","x"," ","o","u","t"," ","o","f"," ","r","a","n","g","e">>

\* SheetsService.get_sheet.  sheets is the number of sheets of the spreadsheet.
\* (Lines 37-40 are dead: _get_file_id has returned a non-empty id or raised.)
get_sheet(file_link, file_id, page_id, sheet_range, sheets, fail) ==
    LET fid == _get_file_id(file_link, file_id)
    IN  IF fid.kind = "raise"
        THEN Done(<<>>, fid)
        ELSE IF Falsy(sheet_range)
        THEN LET meta == Execute(<<>>, "sheets.spreadsheets.get", fid.value, <<>>,
                                 fail, Response)
             IN  IF meta.ret.kind = "raise"
                 THEN meta
                 ELSE IF page_id + 1 > sheets
                 THEN Done(meta.rpcs, Raise("IndexError", ListIndexMsg))
                 ELSE Execute(meta.rpcs, "sheets.spreadsheets.values.get", fid.value,
                              SheetTitle(page_id + 1), fail, Response)
        ELSE Execute(<<>>, "sheets.spreadsheets.values.get", fid.value,
                     sheet_range, fail, Response)

\* SheetsService.update
update(file_link, file_id, range, append, fail) ==
    LET fid == _get_file_id(file_link, file_id)
    IN  IF fid.kind = "raise"
        THEN Done(<<>>, fid)
        ELSE IF append
        THEN Execute(<<>>, "sheets.spreadsheets.values.append", fid.value, range,
                     fail, Response)
        ELSE Execute(<<>>, "sheets.spreadsheets.values.update", fid.value, range,
                     fail, Response)

\* "start_index must be provided for deletion"
StartIndexDeletionMsg ==
    <<"s","t","a","r","t","_","i","n","d","e","x"," ","m","u","s","t"," ","b","e"," ","p","r","o","v","i","d","e","d"," ","f","o","r"," ","d","e","l","e","t","i","o","n">>

\* "start_index must be provided for insertion"
StartIndexInsertionMsg ==
    <<"s","t","a","r","t","_","i","n","d","e","x"," ","m","u","s","t"," ","b","e"," ","p","r","o","v","i","d","e","d"," ","f","o","r"," ","i","n","s","e","r","t","i","o","n">>

\* SheetsService.delete: the deleteDimension request of [start_index, end_index).
delete(file_link, file_id, start_index, end_index, fail) ==
    LET fid == _get_file_id(file_link, file_id)
    IN  IF fid.kind = "raise"
        THEN Done(<<>>, fid)
        ELSE IF start_index = Nothing
        THEN Done(<<>>, Raise("ValueError", StartIndexDeletionMsg))
        ELSE LET end == IF end_index = Nothing THEN start_index[1] + 1 ELSE end_index[1]
             IN  Execute(<<>>, "sheets.spreadsheets.batchUpdate", fid.value,
                         [request |-> "deleteDimension", startIndex |-> start_index[1],
                          endIndex |-> end], fail, Response)

\* insert with the start_index check made after the request was executed.
insert_CheckAfterCall(file_link, file_id, start_index, number_to_insert, fail) ==
    LET fid == _get_file_id(file_link, file_id)
    IN  IF fid.kind = "raise"
        THEN Done(<<>>, fid)
        ELSE IF start_index = Nothing
        THEN Done(Execute(<<>>, "sheets.spreadsheets.batchUpdate", fid.value,
                          [request |-> "insertDimension", startIndex |-> 0,
                           endIndex |-> number_to_insert], fail, Response).rpcs,
                  Raise("ValueError", StartIndexInsertionMsg))
        ELSE Execute(<<>>, "sheets.spreadsheets.batchUpdate", fid.value,
                     [request |-> "insertDimension", startIndex |-> start_index[1],
                      endIndex |-> start_index[1] + number_to_insert], fail, Response)

\* SheetsService.insert: the insertDimension request of number_to_insert lines.
insert(file_link, file_id, start_index, number_to_insert, fail) ==
    LET fid == _get_file_id(file_link, file_id)
    IN  IF fid.kind = "raise"
        THEN Done(<<>>, fid)
        ELSE IF start_index = Nothing
        THEN Done(<<>>, Raise("ValueError", StartIndexInsertionMsg))
        ELSE Execute(<<>>, "sheets.spreadsheets.batchUpdate", fid.value,
                     [request |-> "insertDimension", startIndex |-> start_index[1],
                      endIndex |-> start_index[1] + number_to_insert], fail, Response)

\* "Either sheet or file_link or file_id must be provided."
EitherSheetMsg ==
    <<"E","i","t","h","e","r"," ","s","h","e","e","t"," ","o","r"," ","f","i","l","e","_","l","i","n","k"," ","o","r"," ","f","i","l","e","_","i","d"," ","m","u","s","t"," ","b","e"," ","p","r","o","v","i","d","e","d",".">>

\* The for loop of get_dataframe_from_sheet over the rows from the k-th on:
\* max_len is the length of the longest row seen.
RECURSIVE LongestRow(_, _, _)
LongestRow(values, k, max_len) ==
    IF k > Len(values)
    THEN max_len
    ELSE LongestRow(values, k + 1,
                    IF Len(values[k]) > max_len THEN Len(values[k]) ELSE max_len)

\* values[i] of a Python list: rows are counted from 0, and from the end for
\* a negative i.
ListItem(values, i) ==
    IF i >= 0 /\ i < Len(values)
    THEN Return(values[i + 1])
    ELSE IF i < 0 /\ -i <= Len(values)
    THEN Return(values[Len(values) + i + 1])
    ELSE Raise("IndexError", ListIndexMsg)

\* The headers with the first row taken when no header row is designated.
HeadersOf_FirstRow(values, header_id) == ListItem(values, header_id)

\* The headers get_dataframe_from_sheet gives to the frame.
HeadersOf(values, header_id) ==
    IF header_id # 0
    THEN ListItem(values, header_id)
    ELSE __get_column_names(LongestRow(values, 1, 0))

\* pl.DataFrame(values, columns=headers), with set_index(index, drop=False)
\* applied when an index is given: the frame is what it was built from.
DataFrame(calls, values, headers, index) ==
    IF headers.kind = "raise"
    THEN Done(calls, headers)
    ELSE Done(calls, Return([values |-> values, columns |-> headers.value,
                             index |-> index]))

\* SheetsService.get_dataframe_from_sheet.  sheet is Nothing or Some(sheet);
\* content is what the service answers to get_sheet, whose ValueError is
\* raised again with another message.
get_dataframe_from_sheet(file_link, file_id, sheet_range, sheet, index, header_id, sheets, fail, content) ==
    IF sheet # Nothing
    THEN DataFrame(<<>>, sheet[1].values, HeadersOf(sheet[1].values, header_id), index)
    ELSE LET fetched == get_sheet(file_link, file_id, 0, sheet_range, sheets, fail)
         IN  IF fetched.ret.kind = "raise"
             THEN IF fetched.ret.type = "ValueError"
                  THEN Done(fetched.rpcs, Raise("ValueError", EitherSheetMsg))
                  ELSE fetched
             ELSE DataFrame(fetched.rpcs, content.values,
                            HeadersOf(content.values, header_id), index)

\* SlidesService.get_presentation
get_presentation(file_link, file_id, fail) ==
    LET fid == _get_file_id(file_link, file_id)
    IN  IF fid.kind = "raise"
        THEN Done(<<>>, fid)
        ELSE Execute(<<>>, "slides.presentations.get", fid.value, <<>>, fail, Response)

\* SlidesService.batch_update
batch_update(link_, file_id, fail) ==
    LET fid == _get_file_id(link_, file_id)
    IN  IF fid.kind = "raise"
        THEN Done(<<>>, fid)
        ELSE Execute(<<>>, "slides.presentations.batchUpdate", fid.value, <<>>,
                     fail, Response)

----------------------------------------------------------------------------
(* DriveService.  A local path is the sequence of its components; a MIME   *)
(* type is written the same way (<<"application", "pdf">>), since          *)
(* download_folder hands one to download_file where a path is expected.    *)

\* The name of the local variable of copy_file that is read before it is bound.
ParentFolderIdUnbound ==
    <<"p","a","r","e","n","t","_","f","o","l","d","e","r","_","i","d">>

\* DriveService.copy_file.  parent_folder_id is bound only when folder_id is
\* not given; HttpError is caught and returned.
copy_file(copy_title, file_link, file_id, folder_link, folder_id, fail, copy_id) ==
    LET fid == IF Falsy(file_id) THEN _extract_id(file_link) ELSE Return(file_id)
    IN  IF fid.kind = "raise"
        THEN Done(<<>>, fid)
        ELSE IF ~Falsy(folder_id)
        THEN Done(<<>>, Raise("UnboundLocalError", ParentFolderIdUnbound))
        ELSE LET parent == _extract_id(folder_link)
             IN  IF parent.kind = "raise"
                 THEN Done(<<>>, parent)
                 ELSE LET copy == Execute(<<>>, "drive.files.copy", fid.value,
                                          [parents |-> <<parent.value>>,
                                           name |-> copy_title], fail, copy_id)
                      IN  IF copy.ret.kind = "raise"
                          THEN Done(copy.rpcs, Return(HttpError))
                          ELSE copy

\* DriveService.get_folder_files.  files is what the service lists.
get_folder_files(folder_link, folder_id, mimeType, calls, fail, files) ==
    LET fid == IF Falsy(folder_id) THEN _extract_id(folder_link) ELSE Return(folder_id)
    IN  IF fid.kind = "raise"
        THEN Done(calls, fid)
        ELSE Execute(calls, "drive.files.list", fid.value, mimeType, fail, files)

\* The MIME types download_file exports rather than downloads.
ExportedTypes ==
    { <<"application", "vnd.google-apps.document">>,
      <<"application", "vnd.google-apps.spreadsheet">>,
      <<"application", "vnd.google-apps.presentation">> }

FolderType == <<"application", "vnd.google-apps.folder">>

\* os.path.dirname and os.path.join, on component sequences.
dirname(path) == SubSeq(path, 1, Len(path) - 1)

join(path, name) == Append(path, name)

\* The message of the TypeError of os.path functions applied to None.
ExpectedPath ==
    <<"e","x","p","e","c","t","e","d"," ","s","t","r",","," ","b","y","t","e","s"," ","o","r"," ","o","s",".","P","a","t","h","L","i","k","e"," ","o","b","j","e","c","t",","," ","n","o","t"," ","N","o","n","e","T","y","p","e">>

\* The message of the FileNotFoundError of os.makedirs('').
NoSuchDirectory ==
    <<"N","o"," ","s","u","c","h"," ","f","i","l","e"," ","o","r"," ","d","i","r","e","c","t","o","r","y">>

\* The while loop of download_file: next_chunk is called until it says done
\* (after chunks calls) or raises; the exception is caught and logged.
RECURSIVE NextChunks(_, _, _, _, _, _)
NextChunks(calls, method, id, k, chunks, fail) ==
    LET ok == fail # Len(calls) + 1
        now == Append(calls, Rpc(method, id, [chunk |-> k], ok))
    IN  IF ~ok
        THEN [rpcs |-> now, done |-> FALSE]
        ELSE IF k = chunks
        THEN [rpcs |-> now, done |-> TRUE]
        ELSE NextChunks(now, method, id, k + 1, chunks, fail)

\* DriveService.download_file.  The outcome is None also when the download
\* failed; saved is the local file written, if any.
download_file(file_link, file_id, local_path, mime_type, calls, fail, chunks) ==
    LET fid == IF Falsy(file_id) THEN _extract_id(file_link) ELSE Return(file_id)
        method == IF mime_type \in ExportedTypes
                  THEN "drive.files.export_media"
                  ELSE "drive.files.get_media"
    IN  IF fid.kind = "raise"
        THEN [rpcs |-> calls, ret |-> fid, saved |-> <<>>]
        ELSE IF local_path = None
        THEN [rpcs |-> calls, ret |-> Raise("TypeError", ExpectedPath), saved |-> <<>>]
        ELSE IF dirname(local_path) = <<>>
        THEN [rpcs |-> calls, ret |-> Raise("FileNotFoundError", NoSuchDirectory),
              saved |-> <<>>]
        ELSE LET loop == NextChunks(calls, method, fid.value, 1, chunks, fail)
             IN  [rpcs |-> loop.rpcs, ret |-> Return(None),
                  saved |-> IF loop.done THEN <<local_path>> ELSE <<>>]

\* generate_access_link making a link of the open?id= shape.
generate_access_link_OpenId(file_id) ==
    <<"h","t","t","p","s",":","/","/","d","r","i","v","e",".","g","o","o","g","l","e",".","c","o","m","/","o","p","e","n","?","i","d","=">>
    \o file_id

\* DriveService.generate_access_link
generate_access_link(file_id) ==
    <<"h","t","t","p","s",":","/","/","d","r","i","v","e",".","g","o","o","g","l","e",".","c","o","m","/","f","i","l","e","/","d","/">>
    \o file_id \o
    <<"/","v","i","e","w","?","u","s","p","=","s","h","a","r","i","n","g">>

\* download_and_map of download_folder.  Its recursion is run on a stack of
\* frames [items, i, path_prefix], one per call of download_and_map: the items
\* listed, the item the for loop is at, and the local path of the folder.  st
\* is [rpcs, ret, saved, access_links]; an exception ends the walk.

\* The entry of download_and_map(folder_id, path_prefix): the folder is listed
\* and a frame is pushed.  get_folder_files receives the id as its first
\* positional argument, which is folder_link.
EnterFolder(folder_id, path_prefix, stack, st, fail, files) ==
    LET listed == get_folder_files(folder_id, None, None, st.rpcs, fail, files)
    IN  IF listed.ret.kind = "raise"
        THEN [stack |-> <<>>, st |-> [st EXCEPT !.rpcs = listed.rpcs, !.ret = listed.ret]]
        ELSE [stack |-> <<[items |-> listed.ret.value, i |-> 1,
                           path_prefix |-> path_prefix]>> \o stack,
              st |-> [st EXCEPT !.rpcs = listed.rpcs]]

\* One turn of the for loop of download_and_map, in the frame on top of the
\* stack.  download_file receives (item_id, item_path, item_mime_type) as its
\* first positional arguments, which are (file_link, file_id, local_path).  sub
\* is the listing of every folder below the one asked for.
ForItem(stack, st, sub, fail, chunks) ==
    LET frame == Head(stack)
        rest == <<[frame EXCEPT !.i = frame.i + 1]>> \o Tail(stack)
    IN  IF frame.i > Len(frame.items)
        THEN [stack |-> Tail(stack), st |-> st]
        ELSE IF frame.path_prefix = None
        THEN [stack |-> <<>>, st |-> [st EXCEPT !.ret = Raise("TypeError", ExpectedPath)]]
        ELSE LET item == frame.items[frame.i]
                 item_path == join(frame.path_prefix, item.name)
             IN  IF item.mimeType = FolderType
                 THEN EnterFolder(item.id, item_path, rest, st, fail, sub)
                 ELSE LET got == download_file(item.id, item_path, item.mimeType,
                                               None, st.rpcs, fail, chunks)
                      IN  IF got.ret.kind = "raise"
                          THEN [stack |-> <<>>,
                                st |-> [st EXCEPT !.rpcs = got.rpcs, !.ret = got.ret]]
                          ELSE [stack |-> rest,
                                st |-> [st EXCEPT
                                          !.rpcs = got.rpcs,
                                          !.saved = st.saved \o got.saved,
                                          !.access_links =
                                              (item.name :>
                                                   generate_access_link(item.id))
                                              @@ st.access_links]]

\* download_and_map, run until the outermost call returns or an exception
\* leaves it.  (The next configuration is bound as a value, through a
\* one-element set, before the walk goes on from it.)
RECURSIVE download_and_map(_, _, _, _)
download_and_map(walk, sub, fail, chunks) ==
    IF walk.stack = <<>>
    THEN walk.st
    ELSE CHOOSE st \in
             {download_and_map(next, sub, fail, chunks) :
                  next \in {ForItem(walk.stack, walk.st, sub, fail, chunks)}} : TRUE

\* DriveService.download_folder.  top is the listing of the folder asked for.
download_folder(folder_link, folder_id, local_path, top, sub, fail, chunks) ==
    LET fid == IF Falsy(folder_id) THEN _extract_id(folder_link) ELSE Return(folder_id)
        st0 == [rpcs |-> <<>>, ret |-> NoOutcome, saved |-> <<>>, access_links |-> <<>>]
    IN  IF fid.kind = "raise"
        THEN [st0 EXCEPT !.ret = fid]
        ELSE LET root == EnterFolder(fid.value, local_path, <<>>, st0, fail, top)
                 st == download_and_map(root, sub, fail, chunks)
             IN  IF st.ret.kind = "raise"
                 THEN st
                 ELSE [st EXCEPT !.ret = Return(st.access_links)]

\* "Either folder_id or folder_link must be provided."
EitherFolderMsg ==
    <<"E","i","t","h","e","r"," ","f","o","l","d","e","r","_","i","d"," ","o","r"," ","f","o","l","d","e","r","_","l","i","n","k"," ","m","u","s","t"," ","b","e"," ","p","r","o","v","i","d","e","d",".">>

\* "Invalid file type: ..."
InvalidFileTypeMsg ==
    <<"I","n","v","a","l","i","d"," ","f","i","l","e"," ","t","y","p","e">>

\* The keys of mime_types in create_file.
FileTypes == {"spreadsheet", "document", "presentation"}

\* DriveService.create_file.  HttpError is logged and raised again.
create_file(file_name, file_type, folder_id, folder_link, fail, new_id) ==
    LET fid == IF Falsy(folder_id)
               THEN IF Falsy(folder_link)
                    THEN Raise("ValueError", EitherFolderMsg)
                    ELSE _extract_id(folder_link)
               ELSE Return(folder_id)
    IN  IF fid.kind = "raise"
        THEN Done(<<>>, fid)
        ELSE IF file_type \notin FileTypes
        THEN Done(<<>>, Raise("ValueError", InvalidFileTypeMsg))
        ELSE Execute(<<>>, "drive.files.create", None,
                     [mimeType |-> file_type, parents |-> <<fid.value>>,
                      name |-> file_name], fail, new_id)

----------------------------------------------------------------------------
(* The gateway: one public operation is applied to arguments drawn from    *)
(* the sets below, against a remote service that behaves as drawn.         *)

\* An identifier of the remote service, and the one it gives to a new file.
Id1 == <<"X","y","Z","_","9","-","8">>

Id2 == <<"1","A","2","b","3","C","4","d">>

\* A link or id argument: not given, empty, an identifier, or a link.
Texts == {None, <<>>, Id1, SheetLink, FolderLink, NoMatchLink}

FolderTexts == {None, Id1, FolderLink, NoMatchLink}

Sheet1Range == <<"S","h","e","e","t","1","!","A","1",":","C","1","0">>

PdfItem == [id |-> Id2, name |-> "a.pdf", mimeType |-> <<"application", "pdf">>]

DocItem ==
    [id |-> Id1, name |-> "doc",
     mimeType |-> <<"application", "vnd.google-apps.document">>]

SubFolderItem == [id |-> Id1, name |-> "sub", mimeType |-> FolderType]

\* The listings of at most n items.
RECURSIVE Listings(_, _)
Listings(items, n) ==
    IF n = 0
    THEN {<<>>}
    ELSE Listings(items, n - 1) \cup
         {Append(l, i) : l \in Listings(items, n - 1), i \in items}

Fails == 0..MaxFail

\* The remote service, where an operation does not use all of it.
Remote(fail, sheets, chunks, top, sub) ==
    [fail |-> fail, sheets |-> sheets, chunks |-> chunks, top |-> top, sub |-> sub]

\* The state after an operation that writes no local file.
Applied(name, a, rem, r) ==
    /\ op' = name
    /\ args' = a
    /\ remote' = rem
    /\ rpcs' = r.rpcs
    /\ saved' = <<>>
    /\ ret' = r.ret
    /\ UNCHANGED <<link, idx, columns_num>>

\* The state after a download.
Downloaded(name, a, rem, r) ==
    /\ op' = name
    /\ args' = a
    /\ remote' = rem
    /\ rpcs' = r.rpcs
    /\ saved' = r.saved
    /\ ret' = r.ret
    /\ UNCHANGED <<link, idx, columns_num>>

Init ==
    /\ op = ""
    /\ link = <<>>
    /\ idx = 0
    /\ columns_num = 0
    /\ args = <<>>
    /\ remote = <<>>
    /\ rpcs = <<>>
    /\ saved = <<>>
    /\ ret = NoOutcome

GetSheet ==
    /\ op = ""
    /\ \E fl \in Texts, fi \in Texts, pg \in 0..MaxSheets,
          sr \in {None, Sheet1Range}, n \in 0..MaxSheets, fail \in Fails :
          Applied("get_sheet",
                  [file_link |-> fl, file_id |-> fi, page_id |-> pg, sheet_range |-> sr],
                  Remote(fail, n, 0, <<>>, <<>>),
                  get_sheet(fl, fi, pg, sr, n, fail))

Update ==
    /\ op = ""
    /\ \E fl \in Texts, fi \in Texts, ap \in BOOLEAN, fail \in Fails :
          Applied("update",
                  [file_link |-> fl, file_id |-> fi, range |-> Sheet1Range, append |-> ap],
                  Remote(fail, 0, 0, <<>>, <<>>),
                  update(fl, fi, Sheet1Range, ap, fail))

Delete ==
    /\ op = ""
    /\ \E fl \in Texts, fi \in Texts, si \in {Nothing, Some(0), Some(1)},
          ei \in {Nothing, Some(2)}, fail \in Fails :
          Applied("delete",
                  [file_link |-> fl, file_id |-> fi, start_index |-> si, end_index |-> ei],
                  Remote(fail, 0, 0, <<>>, <<>>),
                  delete(fl, fi, si, ei, fail))

Insert ==
    /\ op = ""
    /\ \E fl \in Texts, fi \in Texts, si \in {Nothing, Some(0), Some(1)},
          k \in 1..2, fail \in Fails :
          Applied("insert",
                  [file_link |-> fl, file_id |-> fi, start_index |-> si,
                   number_to_insert |-> k],
                  Remote(fail, 0, 0, <<>>, <<>>),
                  insert(fl, fi, si, k, fail))

\* The rows of k cells, all alike.
Row(k, cell) == [i \in 1..k |-> cell]

Rows == {Row(k, cell) : k \in 0..MaxCols, cell \in {"h", "v"}}

\* The values of a sheet of at most n rows.
RECURSIVE ValuesUpTo(_)
ValuesUpTo(n) ==
    IF n = 0
    THEN {<<>>}
    ELSE ValuesUpTo(n - 1) \cup {Append(v, r) : v \in ValuesUpTo(n - 1), r \in Rows}

\* The sheet is given, or it is fetched from the service.
GetDataframeFromSheet ==
    /\ op = ""
    /\ \E values \in ValuesUpTo(MaxRows), hd \in (-MaxRows)..MaxRows,
          ix \in {None, <<"A">>} :
          \/ Applied("get_dataframe_from_sheet",
                     [file_link |-> None, file_id |-> None, sheet_range |-> Sheet1Range,
                      sheet |-> Some([values |-> values]), index |-> ix,
                      header_id |-> hd],
                     Remote(0, 0, 0, <<>>, <<>>),
                     get_dataframe_from_sheet(None, None, Sheet1Range,
                                              Some([values |-> values]), ix, hd,
                                              0, 0, [values |-> <<>>]))
          \/ \E fl \in {None, SheetLink, NoMatchLink}, fi \in {None, Id1},
                sr \in {None, Sheet1Range}, n \in 0..MaxSheets, fail \in 0..1 :
                Applied("get_dataframe_from_sheet",
                        [file_link |-> fl, file_id |-> fi, sheet_range |-> sr,
                         sheet |-> Nothing, index |-> ix, header_id |-> hd],
                        [fail |-> fail, sheets |-> n, chunks |-> 0, top |-> <<>>,
                         sub |-> <<>>, values |-> values],
                        get_dataframe_from_sheet(fl, fi, sr, Nothing, ix, hd,
                                                 n, fail, [values |-> values]))

\* The characters file ids are made of here: the letters of the keyword id, a
\* capital, a digit, the hyphen and the underscore.
IdAlphabet == {"i", "d", "A", "9", "-", "_"}

\* The ids of at most n characters.
RECURSIVE IdsUpTo(_)
IdsUpTo(n) ==
    IF n = 0
    THEN {<<>>}
    ELSE IdsUpTo(n - 1) \cup {Append(i, c) : i \in IdsUpTo(n - 1), c \in IdAlphabet}

\* generate_access_link is applied to an id; link is the link it returns.
GenerateAccessLink ==
    /\ op = ""
    /\ \E id \in IdsUpTo(MaxIdLen) \cup {Id1, Id2} :
          /\ args' = [file_id |-> id]
          /\ link' = generate_access_link(id)
          /\ ret' = Return(generate_access_link(id))
    /\ op' = "generate_access_link"
    /\ UNCHANGED <<idx, columns_num, remote, rpcs, saved>>

\* The link generate_access_link returned is handed to _extract_id.
ExtractIdOfAccessLink ==
    /\ op = "generate_access_link"
    /\ op' = "_extract_id"
    /\ ret' = _extract_id(link)
    /\ UNCHANGED pure_vars

GetPresentation ==
    /\ op = ""
    /\ \E fl \in Texts, fi \in Texts, fail \in Fails :
          Applied("get_presentation",
                  [file_link |-> fl, file_id |-> fi],
                  Remote(fail, 0, 0, <<>>, <<>>),
                  get_presentation(fl, fi, fail))

BatchUpdate ==
    /\ op = ""
    /\ \E fl \in Texts, fi \in Texts, fail \in Fails :
          Applied("batch_update",
                  [link |-> fl, file_id |-> fi],
                  Remote(fail, 0, 0, <<>>, <<>>),
                  batch_update(fl, fi, fail))

CopyFile ==
    /\ op = ""
    /\ \E fl \in Texts, fi \in Texts, dl \in Texts, di \in Texts, fail \in Fails :
          Applied("copy_file",
                  [copy_title |-> "copy", file_link |-> fl, file_id |-> fi,
                   folder_link |-> dl, folder_id |-> di],
                  Remote(fail, 0, 0, <<>>, <<>>),
                  copy_file("copy", fl, fi, dl, di, fail, Id2))

GetFolderFiles ==
    /\ op = ""
    /\ \E dl \in Texts, di \in Texts, mt \in {None, FolderType},
          top \in Listings({PdfItem, SubFolderItem}, MaxItems), fail \in Fails :
          Applied("get_folder_files",
                  [folder_link |-> dl, folder_id |-> di, mimeType |-> mt],
                  Remote(fail, 0, 0, top, <<>>),
                  get_folder_files(dl, di, mt, <<>>, fail, top))

DownloadFile ==
    /\ op = ""
    /\ \E fl \in Texts, fi \in Texts,
          lp \in {None, <<"f.bin">>, <<"out", "f.bin">>},
          mt \in {None, <<"application", "pdf">>,
                  <<"application", "vnd.google-apps.document">>},
          chunks \in 1..MaxChunks, fail \in Fails :
          Downloaded("download_file",
                     [file_link |-> fl, file_id |-> fi, local_path |-> lp,
                      mime_type |-> mt],
                     Remote(fail, 0, chunks, <<>>, <<>>),
                     download_file(fl, fi, lp, mt, <<>>, fail, chunks))

DownloadFolder ==
    /\ op = ""
    /\ \E dl \in FolderTexts, di \in FolderTexts, lp \in {None, <<"out">>},
          top \in Listings({PdfItem, DocItem, SubFolderItem}, MaxItems),
          sub \in {<<>>, <<PdfItem>>},
          chunks \in 1..MaxChunks, fail \in Fails :
          Downloaded("download_folder",
                     [folder_link |-> dl, folder_id |-> di, local_path |-> lp],
                     Remote(fail, 0, chunks, top, sub),
                     download_folder(dl, di, lp, top, sub, fail, chunks))

CreateFile ==
    /\ op = ""
    /\ \E ft \in FileTypes \cup {"form"}, di \in Texts, dl \in Texts, fail \in Fails :
          Applied("create_file",
                  [file_name |-> "new", file_type |-> ft, folder_id |-> di,
                   folder_link |-> dl],
                  Remote(fail, 0, 0, <<>>, <<>>),
                  create_file("new", ft, di, dl, fail, Id2))

Next ==
    \/ GetSheet
    \/ Update
    \/ Delete
    \/ Insert
    \/ GetDataframeFromSheet
    \/ GenerateAccessLink
    \/ ExtractIdOfAccessLink
    \/ GetPresentation
    \/ BatchUpdate
    \/ CopyFile
    \/ GetFolderFiles
    \/ DownloadFile
    \/ DownloadFolder
    \/ CreateFile

Spec == Init /\ [][Next]_vars

\* ---------------------------------------------------------------------------
\* The remote calls of one invocation of a gateway operation.

Invoked == op # ""

\* The operations whose body holds one request.execute().
SingleCallOps ==
    {"update", "delete", "insert", "get_presentation", "batch_update", "copy_file",
     "get_folder_files", "create_file"}

ChunkMethods == {"drive.files.get_media", "drive.files.export_media"}

CallsOf(methods) == {i \in 1..Len(rpcs) : rpcs[i].method \in methods}

FilesIn(items) == {i \in 1..Len(items) : items[i].mimeType # FolderType}

\* Every call but the last one succeeded: nothing is called after a failure.
StopsAtFailure == \A i \in 1..(Len(rpcs) - 1) : rpcs[i].ok

\* C10, as stated: every gateway operation issues at most one remote call per
\* invocation, whatever its arguments, and issues no call after a call that
\* failed.
C10_AtMostOneCall == Invoked => Len(rpcs) <= 1 /\ StopsAtFailure

\* C10: update, delete, insert, get_presentation, batch_update, copy_file,
\* get_folder_files and create_file issue at most one remote call per
\* invocation.  get_sheet issues at most two: two only when no sheet_range is
\* given, the spreadsheet's metadata (which succeeded) and then the values of
\* the page.  download_file issues one call per chunk, the chunks in order, and
\* stops at the first that fails.  download_folder issues at most one list call
\* and at most one call per chunk of each file listed in the folder; a list
\* call that failed is its last call, and a chunk that failed is not followed
\* by a later chunk of the same download.  No operation but download_folder
\* issues a call after a call that failed.
C10_CallsPerInvocation ==
    /\ op \in SingleCallOps => Len(rpcs) <= 1
    /\ op = "get_sheet" =>
          /\ Len(rpcs) <= 2
          /\ StopsAtFailure
          /\ Len(rpcs) = 2 =>
                /\ Falsy(args.sheet_range)
                /\ rpcs[1].method = "sheets.spreadsheets.get"
                /\ rpcs[2].method = "sheets.spreadsheets.values.get"
                /\ rpcs[2].id = rpcs[1].id
    /\ op = "download_file" =>
          /\ Len(rpcs) <= remote.chunks
          /\ StopsAtFailure
          /\ \A i \in 1..Len(rpcs) :
                rpcs[i].method \in ChunkMethods /\ rpcs[i].arg.chunk = i
    /\ op = "download_folder" =>
          /\ Cardinality(CallsOf({"drive.files.list"})) <= 1
          /\ Cardinality(CallsOf(ChunkMethods))
                <= remote.chunks * Cardinality(FilesIn(remote.top))
          /\ CallsOf({"drive.files.list"}) \cup CallsOf(ChunkMethods) = 1..Len(rpcs)
          /\ \A i \in 1..Len(rpcs) :
                ~rpcs[i].ok =>
                    IF rpcs[i].method = "drive.files.list"
                    THEN i = Len(rpcs)
                    ELSE i < Len(rpcs) =>
                            \/ rpcs[i + 1].method = "drive.files.list"
                            \/ rpcs[i + 1].arg.chunk = 1

\* get_sheet without a sheet_range has issued its two calls.
C10_Witness ==
    /\ op = "get_sheet"
    /\ Falsy(args.sheet_range)
    /\ Len(rpcs) = 2
    /\ rpcs[1].ok

\* ---------------------------------------------------------------------------
\* The id an operation uses for a resource it is given by link and by id.

\* The ids the calls at positions I carry as their target.
TargetIds(I) == {rpcs[i].id : i \in I}

\* The ids the calls carry as the single parent of the file they make.
ParentIds == {rpcs[i].arg.parents[1] : i \in 1..Len(rpcs)}

Resource(l, i, used) == [link |-> l, id |-> i, used |-> used]

\* The resources of the operation invoked: the link and the id given for each,
\* and the ids its calls used for it.
Resources ==
    CASE op \in {"get_sheet", "update", "delete", "insert", "get_presentation",
                 "download_file", "get_dataframe_from_sheet"} ->
            {Resource(args.file_link, args.file_id, TargetIds(1..Len(rpcs)))}
      [] op = "batch_update" ->
            {Resource(args.link, args.file_id, TargetIds(1..Len(rpcs)))}
      [] op = "copy_file" ->
            {Resource(args.file_link, args.file_id, TargetIds(1..Len(rpcs))),
             Resource(args.folder_link, args.folder_id, ParentIds)}
      [] op = "get_folder_files" ->
            {Resource(args.folder_link, args.folder_id, TargetIds(1..Len(rpcs)))}
      [] op = "download_folder" ->
            {Resource(args.folder_link, args.folder_id,
                      TargetIds(CallsOf({"drive.files.list"}) \cap {1}))}
      [] op = "create_file" ->
            {Resource(args.folder_link, args.folder_id, ParentIds)}
      [] OTHER -> {}

\* The arguments other than links and ids are ones the operation accepts.
OtherArgsValid ==
    /\ op \in {"delete", "insert"} => args.start_index # Nothing
    /\ op = "create_file" => args.file_type \in FileTypes
    /\ op = "download_file" => args.local_path # None /\ Len(args.local_path) > 1
    /\ op = "get_dataframe_from_sheet" => args.sheet = Nothing

\* The operations that resolve their resource with _get_file_id.
FileIdOps == {"get_sheet", "update", "delete", "insert", "get_presentation", "batch_update"}

\* What a resource given by link l and id i is to resolve to.
ExpectedId(l, i) == IF Falsy(i) THEN _extract_id(l) ELSE Return(i)

\* C11: in every operation that takes a link and an id for a resource, a
\* non-empty id is the one the remote call uses, whatever the link; without an
\* id the call uses _extract_id(link); and with neither, _get_file_id raises
\* ValueError.
C11_IdTakesPrecedence ==
    Invoked =>
      /\ \A r \in Resources :
            ExpectedId(r.link, r.id).kind = "return" =>
                r.used \subseteq {ExpectedId(r.link, r.id).value}
      /\ (OtherArgsValid /\ \A r \in Resources : ExpectedId(r.link, r.id).kind = "return")
            => \A r \in Resources : r.used = {ExpectedId(r.link, r.id).value}
      /\ (op \in FileIdOps /\ Falsy(args.file_id) /\
          Falsy(IF op = "batch_update" THEN args.link ELSE args.file_link))
            => ret = Raise("ValueError", EitherFileMsg)

\* ---------------------------------------------------------------------------
\* The parent copy_file gives to the copy.

\* copy_file was invoked on a file it can resolve, and no call failed.
CopyOfResolvedFile ==
    /\ op = "copy_file"
    /\ ExpectedId(args.file_link, args.file_id).kind = "return"
    /\ remote.fail # 1

\* copy_file has issued the one copy request, for the file, with parent as the
\* single parent, and returned the id of the copy.
CopiedInto(parent) ==
    /\ Len(rpcs) = 1
    /\ rpcs[1].method = "drive.files.copy"
    /\ rpcs[1].id = ExpectedId(args.file_link, args.file_id).value
    /\ rpcs[1].arg.parents = <<parent>>
    /\ ret = Return(Id2)

\* C12, the half about a link only: the parent is the id extracted from
\* folder_link.
CopyByFolderLink ==
    (/\ CopyOfResolvedFile
     /\ Falsy(args.folder_id)
     /\ ~Falsy(args.folder_link)
     /\ _extract_id(args.folder_link).kind = "return")
        => CopiedInto(_extract_id(args.folder_link).value)

\* C12: copy_file with a folder_id and no folder_link issues the copy request
\* with that folder_id as the single parent and returns the id of the copy;
\* with only a folder_link the parent is the id extracted from the link.
C12_CopyParent ==
    /\ (/\ CopyOfResolvedFile
        /\ ~Falsy(args.folder_id)
        /\ Falsy(args.folder_link))
          => CopiedInto(args.folder_id)
    /\ CopyByFolderLink

\* ---------------------------------------------------------------------------
\* What download_folder lists, downloads and returns.

FoldersIn(items) == {i \in 1..Len(items) : items[i].mimeType = FolderType}

Elements(seq) == {seq[i] : i \in 1..Len(seq)}

\* The non-folder items of the folder tree, each with the local folder it is
\* in: those of the folder asked for, and those of every folder listed in it.
TreeFiles ==
    {[item |-> remote.top[i], dir |-> args.local_path] : i \in FilesIn(remote.top)}
    \cup {[item |-> remote.sub[j], dir |-> join(args.local_path, remote.top[i].name)] :
              i \in FoldersIn(remote.top), j \in FilesIn(remote.sub)}

\* download_folder was invoked on a folder it can resolve, with a local path,
\* and no call failed.
FolderAskedFor ==
    /\ op = "download_folder"
    /\ ExpectedId(args.folder_link, args.folder_id).kind = "return"
    /\ args.local_path # None
    /\ remote.fail = 0

ListedById(id) ==
    \E k \in 1..Len(rpcs) : rpcs[k].method = "drive.files.list" /\ rpcs[k].id = id

DownloadedById(id) ==
    \E k \in 1..Len(rpcs) : rpcs[k].method \in ChunkMethods /\ rpcs[k].id = id

\* C13: download_folder lists the folder by its id, lists every sub-folder by
\* the sub-folder's id, downloads every non-folder item by the item's id to
\* the local path joined with its name, and returns the dictionary from the
\* name of every non-folder item of the tree to generate_access_link(item id).
C13_FolderDownload ==
    FolderAskedFor =>
      /\ ret.kind = "return"
      /\ ListedById(ExpectedId(args.folder_link, args.folder_id).value)
      /\ \A i \in FoldersIn(remote.top) : ListedById(remote.top[i].id)
      /\ \A f \in TreeFiles :
            /\ DownloadedById(f.item.id)
            /\ join(f.dir, f.item.name) \in Elements(saved)
            /\ f.item.name \in DOMAIN ret.value
            /\ ret.value[f.item.name] = generate_access_link(f.item.id)
      /\ DOMAIN ret.value = {f.item.name : f \in TreeFiles}

\* ---------------------------------------------------------------------------
\* Validation and link resolution before the remote call.

ValidatingOps ==
    {"get_sheet", "update", "delete", "insert", "get_presentation", "batch_update",
     "create_file"}

\* The messages of the ValueErrors these operations raise.
ValidationMsgs ==
    {EitherFileMsg, InvalidGoogleLink, StartIndexDeletionMsg, StartIndexInsertionMsg,
     EitherFolderMsg, InvalidFileTypeMsg}

RaisedValueError == ret.kind = "raise" /\ ret.type = "ValueError"

\* C14: whenever get_sheet, update, delete, insert, get_presentation,
\* batch_update or create_file raises ValueError, it is for a missing id and
\* link, an unresolvable link, a missing start_index or an unsupported
\* file_type, and no remote call has been issued in that invocation.
C14_ValidationBeforeDispatch ==
    (op \in ValidatingOps /\ RaisedValueError) =>
        /\ rpcs = <<>>
        /\ ret.args[1] \in ValidationMsgs

\* insert has resolved its spreadsheet and raised for the missing start_index.
C14_Witness ==
    /\ op = "insert"
    /\ ~Falsy(args.file_id)
    /\ args.start_index = Nothing
    /\ ret = Raise("ValueError", StartIndexInsertionMsg)
    /\ rpcs = <<>>

\* ---------------------------------------------------------------------------
\* The headers of the frame get_dataframe_from_sheet builds.

Framed == op = "get_dataframe_from_sheet" /\ ret.kind = "return"

\* The values of the sheet: of the sheet given, else of the sheet fetched.
SheetValues == IF args.sheet # Nothing THEN args.sheet[1].values ELSE remote.values

\* The length of the longest row; 0 when there is no row.
Longest(values) ==
    IF values = <<>>
    THEN 0
    ELSE CHOOSE m \in {Len(values[i]) : i \in 1..Len(values)} :
             \A i \in 1..Len(values) : Len(values[i]) <= m

FirstLabels == << <<"A">>, <<"B">>, <<"C">>, <<"D">> >>

AccessLinkPrefix ==
    <<"h","t","t","p","s",":","/","/","d","r","i","v","e",".","g","o","o","g","l","e",".","c","o","m","/","f","i","l","e","/","d","/">>

AccessLinkSuffix ==
    <<"/","v","i","e","w","?","u","s","p","=","s","h","a","r","i","n","g">>

AccessLinkResolved == op = "_extract_id" /\ args # <<>>

\* C16: for every id made of letters, digits, hyphen and underscore, the link
\* generate_access_link makes of it is
\* "https://drive.google.com/file/d/<id>/view?usp=sharing", and _extract_id
\* of that link raises ValueError("Invalid Google link") instead of returning
\* the id.
C16_AccessLinkUnresolvable ==
    AccessLinkResolved =>
        /\ \A i \in 1..Len(args.file_id) : args.file_id[i] \in IdChars
        /\ link = AccessLinkPrefix \o args.file_id \o AccessLinkSuffix
        /\ ret = Raise("ValueError", InvalidGoogleLink)

\* The access link of an id that ends with the keyword id has been refused.
C16_Witness ==
    /\ AccessLinkResolved
    /\ args.file_id = <<"A", "i", "d">>
    /\ ret.kind = "raise"

====
